---- MODULE Spec2Model ----
(***************************************************************************)
(* Flashbook backend: the summary cache (services/cache_service.py), the   *)
(* Gemini response normaliser (services/gemini_client.py) and the          *)
(* /generateSummary handler (api/generate_summary.py).                     *)
(*                                                                         *)
(* Text is modelled by TLA+ strings (Len, \o and SubSeq act on them as     *)
(* Python's len, + and slicing do).  An Optional value is the empty set    *)
(* (None) or a singleton.  sha256 is modelled as injective: a cache key is *)
(* the key string that is hashed.                                          *)
(***************************************************************************)
EXTENDS Integers, Sequences, FiniteSets, TLC

VARIABLES
    now,        \* datetime.utcnow(), in seconds
    cache,      \* CacheService._cache: key -> Optional CacheEntry
    stats,      \* CacheService._stats
    client,     \* GeminiClient._initialized
    slots,      \* the coroutines suspended inside the /generateSummary handler
    done,       \* the request whose handler returned last, and what it returned
    started,    \* number of requests accepted so far
    hist,       \* history: per key, the responses returned after a store
    last,       \* the last direct call of the cache API and what it returned
    norm        \* the normaliser run on its own: its input and its result

vars == <<now, cache, stats, client, slots, done, started, hist, last, norm>>

(***************************************************************************)
(* Python helpers                                                          *)
(***************************************************************************)
None == {}

Some(x) == {x}

Get(o) == CHOOSE x \in o : TRUE

Min(a, b) == IF a < b THEN a ELSE b

Max(a, b) == IF a > b THEN a ELSE b

\* s[:n]
Prefix(s, n) == SubSeq(s, 1, Min(n, Len(s)))

\* s[-n:]
Suffix(s, n) == SubSeq(s, Max(1, Len(s) - n + 1), Len(s))

\* s[n:]
Drop(s, n) == SubSeq(s, Min(n, Len(s)) + 1, Len(s))

\* s[:-n]
DropLast(s, n) == SubSeq(s, 1, Max(0, Len(s) - n))

\* a or b, on strings
StrOr(a, b) == IF a = "" THEN b ELSE a

\* a or b, a an Optional[str]
OptOr(a, b) == IF a = None \/ a = Some("") THEN b ELSE Get(a)

RECURSIVE Rep(_, _)
\* c * n
Rep(c, n) ==
    IF n = 0 THEN ""
    ELSE LET h == Rep(c, n \div 2)
         IN  IF n % 2 = 1 THEN h \o h \o c ELSE h \o h

RECURSIVE LStrip(_)
LStrip(s) == IF Len(s) > 0 /\ SubSeq(s, 1, 1) = " " THEN LStrip(Drop(s, 1)) ELSE s

RECURSIVE RStrip(_)
RStrip(s) ==
    IF Len(s) > 0 /\ SubSeq(s, Len(s), Len(s)) = " " THEN RStrip(DropLast(s, 1)) ELSE s

\* s.strip()
Strip(s) == LStrip(RStrip(s))

UpperTable ==
    [c \in {"a", "b", "c", "d", "e", "f", "g", "h", "i", "j", "k", "l", 
             "m", "n", "o", "p", "q", "r", "s", "t", "u", "v", "w", "x", "y", "z", "_"} |->
        CASE c = "a" -> "A" [] c = "b" -> "B" [] c = "c" -> "C" [] c = "d" -> "D"
          [] c = "e" -> "E" [] c = "f" -> "F" [] c = "g" -> "G" [] c = "h" -> "H"
          [] c = "i" -> "I" [] c = "j" -> "J" [] c = "k" -> "K" [] c = "l" -> "L"
          [] c = "m" -> "M" [] c = "n" -> "N" [] c = "o" -> "O" [] c = "p" -> "P"
          [] c = "q" -> "Q" [] c = "r" -> "R" [] c = "s" -> "S" [] c = "t" -> "T"
          [] c = "u" -> "U" [] c = "v" -> "V" [] c = "w" -> "W" [] c = "x" -> "X"
          [] c = "y" -> "Y" [] c = "z" -> "Z" [] c = "_" -> " "]

RECURSIVE UpperSpaced(_)
\* s.upper().replace("_", " ")
UpperSpaced(s) ==
    IF s = "" THEN ""
    ELSE LET c == SubSeq(s, 1, 1)
         IN  (IF c \in DOMAIN UpperTable THEN UpperTable[c] ELSE c) \o UpperSpaced(Drop(s, 1))

(***************************************************************************)
(* core/config.py and core/schemas.py                                      *)
(***************************************************************************)
CACHE_TTL_SECONDS == 86400

MAX_SLIDES == 8

MAX_VISUAL_SLOTS == 2

MIN_BLOCKS == 3

MIN_CHUNK_LENGTH == 100

MAX_CHUNK_LENGTH == 15000

MAX_TITLE_LENGTH == 200

MAX_CONTEXT_LENGTH == 2000

MAX_SLIDE_TITLE_LENGTH == 30

MAX_HEADLINE_LENGTH == 100

MAX_IMAGE_PROMPT_LENGTH == 500

CLEANUP_EVERY == 100

SummaryMode == {"chapter", "concept", "law"}

BlockType ==
    {"scene", "reveal", "emotion", "tension", "insight", "quote", "visual", "lyric_scroll",
     "core_idea", "explanation", "example", "takeaway", "nuance", "contrast", "reflection"}

\* SummaryRequest's field constraints (the body is stored stripped)
SummaryRequestValid(r) ==
    /\ r.chapter_title # None => Len(Get(r.chapter_title)) <= MAX_TITLE_LENGTH
    /\ Len(r.text_chunk) >= MIN_CHUNK_LENGTH
    /\ Len(r.text_chunk) <= MAX_CHUNK_LENGTH
    /\ Strip(r.text_chunk) = r.text_chunk
    /\ r.mode \in SummaryMode
    /\ r.prev_context # None => Len(Get(r.prev_context)) <= MAX_CONTEXT_LENGTH
    /\ r.next_context # None => Len(Get(r.next_context)) <= MAX_CONTEXT_LENGTH

\* ContentBlock's field constraints
ContentBlockValid(b) ==
    /\ b.type \in BlockType
    /\ Len(b.slide_title) <= MAX_SLIDE_TITLE_LENGTH
    /\ Len(b.headline) <= MAX_HEADLINE_LENGTH
    /\ Len(b.image_prompt) <= MAX_IMAGE_PROMPT_LENGTH

\* mutant: a response may hold no block
SummaryResponseValid_allows_empty(r) ==
    /\ Len(r.blocks) <= MAX_SLIDES
    /\ r.visual_slots_used >= 0
    /\ r.visual_slots_used <= MAX_VISUAL_SLOTS
    /\ \A i \in 1..Len(r.blocks) : ContentBlockValid(r.blocks[i])

\* SummaryResponse's field constraints
SummaryResponseValid(r) ==
    /\ Len(r.blocks) >= 1
    /\ Len(r.blocks) <= MAX_SLIDES
    /\ r.visual_slots_used >= 0
    /\ r.visual_slots_used <= MAX_VISUAL_SLOTS
    /\ \A i \in 1..Len(r.blocks) : ContentBlockValid(r.blocks[i])

\* GenerationNotes(...) accepts a bool for each note
NoteValid(v) == v \in {"true", "false"}

\* GeminiOutput(**data): unit_title and blocks are required, every block needs a type
GeminiOutputValid(d) ==
    /\ d.is_object
    /\ d.unit_title # None
    /\ d.blocks # None
    /\ \A i \in 1..Len(Get(d.blocks)) : Get(d.blocks)[i].type # None

(***************************************************************************)
(* services/gemini_client.py: _parse_gemini_response                       *)
(*                                                                         *)
(* The raw text is a sequence of tokens: "ws" (whitespace), "fence" (```), *)
(* "json" (the tag after an opening fence), "tag" (any other word) and     *)
(* "doc", the JSON document itself (field v).                              *)
(***************************************************************************)
RECURSIVE TokLStrip(_)
TokLStrip(s) == IF Len(s) > 0 /\ Head(s).t = "ws" THEN TokLStrip(Tail(s)) ELSE s

RECURSIVE TokRStrip(_)
TokRStrip(s) ==
    IF Len(s) > 0 /\ s[Len(s)].t = "ws" THEN TokRStrip(SubSeq(s, 1, Len(s) - 1)) ELSE s

\* raw_response.strip()
TokStrip(s) == TokLStrip(TokRStrip(s))

\* if cleaned.startswith("```json"): cleaned = cleaned[7:]
CutJsonFence(c) ==
    IF Len(c) >= 2 /\ c[1].t = "fence" /\ c[2].t = "json" THEN SubSeq(c, 3, Len(c)) ELSE c

\* if cleaned.startswith("```"): cleaned = cleaned[3:]
CutFence(c) == IF Len(c) >= 1 /\ c[1].t = "fence" THEN Tail(c) ELSE c

\* if cleaned.endswith("```"): cleaned = cleaned[:-3]
CutEndFence(c) ==
    IF Len(c) >= 1 /\ c[Len(c)].t = "fence" THEN SubSeq(c, 1, Len(c) - 1) ELSE c

\* the clean-up of markdown wrapping
Cleaned(raw_response) == TokStrip(CutEndFence(CutFence(CutJsonFence(TokStrip(raw_response)))))

\* json.loads succeeds on exactly one well-formed document
JsonLoads(cleaned) ==
    IF Len(cleaned) = 1 /\ cleaned[1].t = "doc" /\ cleaned[1].v.well_formed
    THEN Some(cleaned[1].v) ELSE None

\* mutant: the image prompt goes out whether or not the hint does
BuildBlock_keeps_prompt(block, tag, allow, body) ==
    [type         |-> IF tag \in BlockType THEN tag ELSE "insight",
     slide_title  |-> StrOr(block.slide_title, UpperSpaced(tag)),
     headline     |-> block.headline,
     body         |-> body,
     text         |-> body,
     lyric_lines  |-> block.lyric_lines,
     image_hint   |-> allow,
     image_prompt |-> block.image_prompt]

\* the block appended for a raw block with type tag `tag`, passing its hint iff allow
BuildBlock(block, tag, allow, body) ==
    [type         |-> IF tag \in BlockType THEN tag ELSE "insight",
     slide_title  |-> StrOr(block.slide_title, UpperSpaced(tag)),
     headline     |-> block.headline,
     body         |-> body,
     text         |-> body,
     lyric_lines  |-> block.lyric_lines,
     image_hint   |-> allow,
     image_prompt |-> IF allow THEN block.image_prompt ELSE ""]

\* mutant: the cap is one slot short
HintAllowed_one_slot(block, visual_count) ==
    block.image_hint /\ visual_count < MAX_VISUAL_SLOTS - 1

\* mutant: any block is illustrated while a slot is free
HintAllowed_fills_slots(block, visual_count) == visual_count < MAX_VISUAL_SLOTS

\* `if block.image_hint and visual_count < 2`
HintAllowed(block, visual_count) == block.image_hint /\ visual_count < MAX_VISUAL_SLOTS

\* the loop body: one raw block and the running visual count
ConvertBlock(block, visual_count) ==
    BuildBlock(block, Get(block.type), HintAllowed(block, visual_count),
               StrOr(block.body, block.text))

RECURSIVE ConvertLoop(_, _, _)
\* for block in parsed.blocks[:8]: the blocks appended and visual_count, at loop end
ConvertLoop(raw_blocks, blocks, visual_count) ==
    IF raw_blocks = <<>> THEN [blocks |-> blocks, visual_count |-> visual_count]
    ELSE ConvertLoop(Tail(raw_blocks),
                     Append(blocks, ConvertBlock(Head(raw_blocks), visual_count)),
                     IF HintAllowed(Head(raw_blocks), visual_count)
                     THEN visual_count + 1 ELSE visual_count)

NoteGet(notes, key) == IF notes[key] = "absent" THEN "false" ELSE notes[key]

Ok(resp) == [ok |-> TRUE, value |-> Some(resp), error |-> "", msg |-> ""]

Raise(kind, message) == [ok |-> FALSE, value |-> None, error |-> kind, msg |-> message]

\* mutant: the last 8 blocks are kept
KeptBlocks_last_eight(parsed) ==
    SubSeq(Get(parsed.blocks),
           Len(Get(parsed.blocks)) - Min(MAX_SLIDES, Len(Get(parsed.blocks))) + 1,
           Len(Get(parsed.blocks)))

\* parsed.blocks[:8]
KeptBlocks(parsed) == SubSeq(Get(parsed.blocks), 1, Min(MAX_SLIDES, Len(Get(parsed.blocks))))

\* mutant: the generator's own count is passed on
BuildResponse_trusts_generator(parsed, request, loop) ==
    [unit_title        |-> StrOr(Get(parsed.unit_title),
                                 OptOr(request.chapter_title, "Learning Unit")),
     blocks            |-> loop.blocks,
     visual_slots_used |-> parsed.visual_slots_used,
     cached            |-> FALSE,
     notes             |-> [compression_applied |->
                                NoteGet(parsed.notes, "compression_applied") = "true",
                            long_chapter_handled |->
                                NoteGet(parsed.notes, "long_chapter_handled") = "true",
                            context_used_only_for_continuity |-> TRUE]]

\* mutant: the generator's continuity note is passed on
BuildResponse_keeps_note(parsed, request, loop) ==
    [unit_title        |-> StrOr(Get(parsed.unit_title),
                                 OptOr(request.chapter_title, "Learning Unit")),
     blocks            |-> loop.blocks,
     visual_slots_used |-> loop.visual_count,
     cached            |-> FALSE,
     notes             |-> [compression_applied |->
                                NoteGet(parsed.notes, "compression_applied") = "true",
                            long_chapter_handled |->
                                NoteGet(parsed.notes, "long_chapter_handled") = "true",
                            context_used_only_for_continuity |->
                                NoteGet(parsed.notes, "context_used_only_for_continuity") = "true"]]

\* the SummaryResponse(...) built at the end of the try block
BuildResponse(parsed, request, loop) ==
    [unit_title        |-> StrOr(Get(parsed.unit_title),
                                 OptOr(request.chapter_title, "Learning Unit")),
     blocks            |-> loop.blocks,
     visual_slots_used |-> loop.visual_count,
     cached            |-> FALSE,
     notes             |-> [compression_applied |->
                                NoteGet(parsed.notes, "compression_applied") = "true",
                            long_chapter_handled |->
                                NoteGet(parsed.notes, "long_chapter_handled") = "true",
                            context_used_only_for_continuity |-> TRUE]]

\* the constructors' validation: any failure is re-raised as ValueError
Validated(parsed, resp) ==
    IF /\ NoteValid(NoteGet(parsed.notes, "compression_applied"))
       /\ NoteValid(NoteGet(parsed.notes, "long_chapter_handled"))
       /\ SummaryResponseValid(resp)
    THEN Ok(resp)
    ELSE Raise("ValueError", "AI response parsing failed: validation")

\* the try block once json.loads has given data
ParseData(data, request) ==
    IF data = None THEN Raise("ValueError", "AI response parsing failed: json")
    ELSE IF ~GeminiOutputValid(Get(data))
    THEN Raise("ValueError", "AI response parsing failed: schema")
    ELSE Validated(Get(data),
                   BuildResponse(Get(data), request,
                                 ConvertLoop(KeptBlocks(Get(data)), <<>>, 0)))

_parse_gemini_response(raw_response, request) ==
    ParseData(JsonLoads(Cleaned(raw_response)), request)

(***************************************************************************)
(* services/cache_service.py: CacheService                                 *)
(***************************************************************************)
\* mutant: the whole body is digested
KeyChunk_whole(text_chunk) == text_chunk

\* the text that sha256 digests
KeyChunk(text_chunk) ==
    IF Len(text_chunk) > 1000
    THEN Prefix(text_chunk, 500) \o Suffix(text_chunk, 500)
    ELSE text_chunk

\* mutant: the continuity context takes part in the key
_generate_key_with_context(request) ==
    OptOr(request.book_id, "none") \o "|" \o OptOr(request.chapter_title, "none")
        \o "|" \o KeyChunk(request.text_chunk) \o "|" \o request.mode
        \o "|" \o OptOr(request.prev_context, "")

_generate_key(request) ==
    OptOr(request.book_id, "none") \o "|" \o OptOr(request.chapter_title, "none")
        \o "|" \o KeyChunk(request.text_chunk) \o "|" \o request.mode

\* mutant: an entry expires at its deadline, not after it
_is_expired_at_deadline(entry) == now >= entry.expires_at

_is_expired(entry) == now > entry.expires_at

Remove(c, keys) == [k \in (DOMAIN c) \ keys |-> c[k]]

\* mutant: the hit count of the entry replaced is carried over
Put_carries_hits(c, key, entry) ==
    [k \in (DOMAIN c) \cup {key} |->
        IF k # key THEN c[k]
        ELSE IF key \in DOMAIN c THEN [entry EXCEPT !.hit_count = c[key].hit_count]
        ELSE entry]

Put(c, key, entry) == [k \in (DOMAIN c) \cup {key} |-> IF k = key THEN entry ELSE c[k]]

ExpiredKeys(c) == {k \in DOMAIN c : _is_expired(c[k])}

\* mutant: the sweep writes its own count over the evictions so far
_cleanup_expired_recounts(c, st) ==
    [cache |-> Remove(c, ExpiredKeys(c)),
     stats |-> [st EXCEPT !.evictions = Cardinality(ExpiredKeys(c))]]

\* the cache and the counters after _cleanup_expired() has run on c, st
_cleanup_expired(c, st) ==
    [cache |-> Remove(c, ExpiredKeys(c)),
     stats |-> [st EXCEPT !.evictions = @ + Cardinality(ExpiredKeys(c))]]

\* mutant: the dump loses the visual count
model_dump_drops_slots(response) ==
    [unit_title        |-> response.unit_title,
     blocks            |-> response.blocks,
     visual_slots_used |-> 0,
     cached            |-> response.cached,
     notes             |-> response.notes]

\* response.model_dump()
model_dump(response) ==
    [unit_title        |-> response.unit_title,
     blocks            |-> response.blocks,
     visual_slots_used |-> response.visual_slots_used,
     cached            |-> response.cached,
     notes             |-> response.notes]

\* mutant: the stored dump is returned as it is
GetKey_keeps_flag(key) ==
    IF key \notin DOMAIN cache
    THEN [cache |-> cache,
          stats |-> [stats EXCEPT !.misses = @ + 1],
          ret   |-> None]
    ELSE IF _is_expired(cache[key])
    THEN [cache |-> Remove(cache, {key}),
          stats |-> [stats EXCEPT !.misses = @ + 1, !.evictions = @ + 1],
          ret   |-> None]
    ELSE [cache |-> [cache EXCEPT ![key].hit_count = @ + 1],
          stats |-> [stats EXCEPT !.hits = @ + 1],
          ret   |-> Some(cache[key].data)]

\* mutant: expiry is left to the sweep
GetKey_unchecked(key) ==
    IF key \notin DOMAIN cache
    THEN [cache |-> cache,
          stats |-> [stats EXCEPT !.misses = @ + 1],
          ret   |-> None]
    ELSE [cache |-> [cache EXCEPT ![key].hit_count = @ + 1],
          stats |-> [stats EXCEPT !.hits = @ + 1],
          ret   |-> Some([cache[key].data EXCEPT !.cached = TRUE])]

\* mutant: an expired lookup is cut short after the eviction is counted
GetKey_torn(key) ==
    IF key \notin DOMAIN cache
    THEN [cache |-> cache,
          stats |-> [stats EXCEPT !.misses = @ + 1],
          ret   |-> None]
    ELSE IF _is_expired(cache[key])
    THEN [cache |-> Remove(cache, {key}),
          stats |-> [stats EXCEPT !.evictions = @ + 1],
          ret   |-> None]
    ELSE [cache |-> [cache EXCEPT ![key].hit_count = @ + 1],
          stats |-> [stats EXCEPT !.hits = @ + 1],
          ret   |-> Some([cache[key].data EXCEPT !.cached = TRUE])]

\* mutant: a lookup of an absent key is not counted
GetKey_miss_uncounted(key) ==
    IF key \notin DOMAIN cache
    THEN [cache |-> cache,
          stats |-> stats,
          ret   |-> None]
    ELSE IF _is_expired(cache[key])
    THEN [cache |-> Remove(cache, {key}),
          stats |-> [stats EXCEPT !.misses = @ + 1, !.evictions = @ + 1],
          ret   |-> None]
    ELSE [cache |-> [cache EXCEPT ![key].hit_count = @ + 1],
          stats |-> [stats EXCEPT !.hits = @ + 1],
          ret   |-> Some([cache[key].data EXCEPT !.cached = TRUE])]

\* mutant: a hit renews the entry's lifetime
GetKey_refreshes(key) ==
    IF key \notin DOMAIN cache
    THEN [cache |-> cache,
          stats |-> [stats EXCEPT !.misses = @ + 1],
          ret   |-> None]
    ELSE IF _is_expired(cache[key])
    THEN [cache |-> Remove(cache, {key}),
          stats |-> [stats EXCEPT !.misses = @ + 1, !.evictions = @ + 1],
          ret   |-> None]
    ELSE [cache |-> [cache EXCEPT ![key].hit_count = @ + 1,
                                  ![key].expires_at = now + CACHE_TTL_SECONDS],
          stats |-> [stats EXCEPT !.hits = @ + 1],
          ret   |-> Some([cache[key].data EXCEPT !.cached = TRUE])]

\* mutant: an expired entry is counted as evicted and left in place
GetKey_leaves_expired(key) ==
    IF key \notin DOMAIN cache
    THEN [cache |-> cache,
          stats |-> [stats EXCEPT !.misses = @ + 1],
          ret   |-> None]
    ELSE IF _is_expired(cache[key])
    THEN [cache |-> cache,
          stats |-> [stats EXCEPT !.misses = @ + 1, !.evictions = @ + 1],
          ret   |-> None]
    ELSE [cache |-> [cache EXCEPT ![key].hit_count = @ + 1],
          stats |-> [stats EXCEPT !.hits = @ + 1],
          ret   |-> Some([cache[key].data EXCEPT !.cached = TRUE])]

\* get, from `entry = self._cache.get(key)` on
GetKey(key) ==
    IF key \notin DOMAIN cache
    THEN [cache |-> cache,
          stats |-> [stats EXCEPT !.misses = @ + 1],
          ret   |-> None]
    ELSE IF _is_expired(cache[key])
    THEN [cache |-> Remove(cache, {key}),
          stats |-> [stats EXCEPT !.misses = @ + 1, !.evictions = @ + 1],
          ret   |-> None]
    ELSE [cache |-> [cache EXCEPT ![key].hit_count = @ + 1],
          stats |-> [stats EXCEPT !.hits = @ + 1],
          ret   |-> Some([cache[key].data EXCEPT !.cached = TRUE])]

\* get(request): the cache and counters it leaves, and what it returns
get(request) == GetKey(_generate_key(request))

\* mutant: the flag of the response handed in is stored
NewEntry_keeps_flag(response) ==
    [data       |-> model_dump(response),
     created_at |-> now,
     expires_at |-> now + CACHE_TTL_SECONDS,
     hit_count  |-> 0]

\* the entry store() builds
NewEntry(response) ==
    [data       |-> [model_dump(response) EXCEPT !.cached = FALSE],
     created_at |-> now,
     expires_at |-> now + CACHE_TTL_SECONDS,
     hit_count  |-> 0]

\* mutant: every store sweeps
AfterStore_always_sweeps(c, st) == _cleanup_expired(c, st)

\* store, from `self._stats["stores"] += 1` on
AfterStore(c, st) ==
    IF st.stores % CLEANUP_EVERY = 0
    THEN _cleanup_expired(c, st)
    ELSE [cache |-> c, stats |-> st]

\* mutant: an entry already under the key is kept
store_keeps_first(request, response) ==
    [cache    |-> IF _generate_key(request) \in DOMAIN cache THEN cache
                  ELSE Put(cache, _generate_key(request), NewEntry(response)),
     stats    |-> [stats EXCEPT !.stores = @ + 1],
     response |-> response]

\* mutant: store marks the object it was handed
store_marks_object(request, response) ==
    [cache    |-> AfterStore(Put(cache, _generate_key(request), NewEntry(response)),
                             [stats EXCEPT !.stores = @ + 1]).cache,
     stats    |-> AfterStore(Put(cache, _generate_key(request), NewEntry(response)),
                             [stats EXCEPT !.stores = @ + 1]).stats,
     response |-> [response EXCEPT !.cached = TRUE]]

\* store(request, response): the cache and counters it leaves, and the caller's response
\* object after the call (the entry is built from a dump, the object is not written to)
store(request, response) ==
    [cache    |-> AfterStore(Put(cache, _generate_key(request), NewEntry(response)),
                             [stats EXCEPT !.stores = @ + 1]).cache,
     stats    |-> AfterStore(Put(cache, _generate_key(request), NewEntry(response)),
                             [stats EXCEPT !.stores = @ + 1]).stats,
     response |-> response]

\* mutant: an expired entry is not seen
InvalidateKey_live_only(key) ==
    IF key \in DOMAIN cache /\ ~_is_expired(cache[key])
    THEN [cache |-> Remove(cache, {key}), ret |-> TRUE]
    ELSE [cache |-> cache, ret |-> FALSE]

\* invalidate, from `if key in self._cache` on
InvalidateKey(key) ==
    IF key \in DOMAIN cache
    THEN [cache |-> Remove(cache, {key}), ret |-> TRUE]
    ELSE [cache |-> cache, ret |-> FALSE]

invalidate(request) == InvalidateKey(_generate_key(request))

\* mutant: only the unexpired entries are counted
clear_counts_live ==
    [cache |-> [k \in {} |-> 0], ret |-> Cardinality((DOMAIN cache) \ ExpiredKeys(cache))]

clear == [cache |-> [k \in {} |-> 0], ret |-> Cardinality(DOMAIN cache)]

\* the integer nearest to n / d, a tie going to the even one
RoundHalfEven(n, d) ==
    IF 2 * (n % d) < d THEN n \div d
    ELSE IF 2 * (n % d) > d THEN (n \div d) + 1
    ELSE IF (n \div d) % 2 = 0 THEN n \div d
    ELSE (n \div d) + 1

\* mutant: the rate is cut after two decimals
get_stats_truncates ==
    [hits      |-> stats.hits,
     misses    |-> stats.misses,
     stores    |-> stats.stores,
     evictions |-> stats.evictions,
     entries   |-> Cardinality(DOMAIN cache),
     hit_rate_percent |-> IF stats.hits + stats.misses > 0
                          THEN (10000 * stats.hits) \div (stats.hits + stats.misses)
                          ELSE 0]

\* hit_rate_percent, a number of two decimals, is held in hundredths of a percent:
\* round(hits / total * 100, 2).  (A tie needs a total of 32 or more.)
get_stats ==
    [hits      |-> stats.hits,
     misses    |-> stats.misses,
     stores    |-> stats.stores,
     evictions |-> stats.evictions,
     entries   |-> Cardinality(DOMAIN cache),
     hit_rate_percent |-> IF stats.hits + stats.misses > 0
                          THEN RoundHalfEven(10000 * stats.hits, stats.hits + stats.misses)
                          ELSE 0]

(***************************************************************************)
(* api/generate_summary.py                                                 *)
(***************************************************************************)
FallbackBlock(type, text) ==
    [type |-> type, slide_title |-> "", headline |-> "", body |-> "", text |-> text,
     lyric_lines |-> <<>>, image_hint |-> FALSE, image_prompt |-> ""]

\* mutant: a text of exactly 300 characters is marked as cut
TextPreview_marks_300(text_chunk) ==
    IF Len(text_chunk) >= 300
    THEN Strip(Prefix(text_chunk, 300)) \o "..."
    ELSE Strip(Prefix(text_chunk, 300))

\* text_preview
TextPreview(text_chunk) ==
    IF Len(text_chunk) > 300
    THEN Strip(Prefix(text_chunk, 300)) \o "..."
    ELSE Strip(Prefix(text_chunk, 300))

\* mutant: the error text is shown to the reader
_create_fallback_response_shows_error(request, error_msg) ==
        [unit_title        |-> OptOr(request.chapter_title, "Chapter Summary"),
         blocks            |-> <<
             FallbackBlock("core_idea", "This chapter covers: " \o TextPreview(request.text_chunk)),
             FallbackBlock("insight", "AI summary generation encountered an issue: " \o error_msg),
             FallbackBlock("takeaway", "Consider reviewing the full chapter for complete understanding.")
         >>,
         visual_slots_used |-> 0,
         cached            |-> FALSE,
         notes             |-> [compression_applied |-> FALSE,
                                long_chapter_handled |-> FALSE,
                                context_used_only_for_continuity |-> TRUE]]

_create_fallback_response(request, error_msg) ==
        [unit_title        |-> OptOr(request.chapter_title, "Chapter Summary"),
         blocks            |-> <<
             FallbackBlock("core_idea", "This chapter covers: " \o TextPreview(request.text_chunk)),
             FallbackBlock("insight", "AI summary generation encountered an issue. Please try again or continue reading."),
             FallbackBlock("takeaway", "Consider reviewing the full chapter for complete understanding.")
         >>,
         visual_slots_used |-> 0,
         cached            |-> FALSE,
         notes             |-> [compression_applied |-> FALSE,
                                long_chapter_handled |-> FALSE,
                                context_used_only_for_continuity |-> TRUE]]

\* mutant: the looked-up response is ignored
ReturnsCached_never(cached_response) == FALSE

\* Step 1: `if cached_response is not None: return cached_response`
ReturnsCached(cached_response) == cached_response # None

\* GeminiClient._ensure_initialized: "ok", or the exception it raises.  With a key set,
\* line 227 reads settings.GEMINI_MODEL_Text, an attribute that core/config.py's Settings
\* does not define (it defines GEMINI_MODEL): as the sources stand the read raises
\* AttributeError, the "Exception" outcome.  model_built = TRUE is the outcome of a
\* deployment whose settings object carries the attribute and whose library call succeeds;
\* both outcomes are explored.
_ensure_initialized(model_built) ==
    IF client.initialized THEN "ok"
    ELSE IF client.api_key = "" THEN "ValueError"
    ELSE IF model_built THEN "ok"
    ELSE "Exception"

\* GeminiClient.generate_summary once generate_content_async has returned or raised
gemini_generate_summary(outcome, request) ==
    IF outcome.kind = "raise" THEN Raise("Exception", outcome.msg)
    ELSE IF outcome.text = <<>> THEN Raise("ValueError", "Empty response from Gemini")
    ELSE _parse_gemini_response(outcome.text, request)

\* mutant: two blocks are taken for enough
TooFewBlocks_off_by_one(response) == Len(response.blocks) < MIN_BLOCKS - 1

\* `if len(response.blocks) < 3`
TooFewBlocks(response) == Len(response.blocks) < MIN_BLOCKS

\* mutant: only ValueError is caught
generate_summary_uncaught(request, result) ==
    IF result.ok
    THEN [branch |-> "store", status |-> "200",
          response |-> IF TooFewBlocks(Get(result.value))
                       THEN Some(_create_fallback_response(request, "Insufficient content generated"))
                       ELSE result.value,
          fallback |-> TooFewBlocks(Get(result.value)), stored |-> TRUE]
    ELSE IF result.error = "ValueError"
    THEN [branch |-> "parse_error", status |-> "200",
          response |-> Some(_create_fallback_response(request, result.msg)),
          fallback |-> TRUE, stored |-> FALSE]
    ELSE [branch |-> "api_error", status |-> "500", response |-> None,
          fallback |-> FALSE, stored |-> FALSE]

\* Steps 2 and 3, given what `await gemini.generate_summary(request)` gave: the branch
\* taken, the response returned and whether cache.store was called with it
generate_summary(request, result) ==
    IF result.ok
    THEN [branch |-> "store", status |-> "200",
          response |-> IF TooFewBlocks(Get(result.value))
                       THEN Some(_create_fallback_response(request, "Insufficient content generated"))
                       ELSE result.value,
          fallback |-> TooFewBlocks(Get(result.value)), stored |-> TRUE]
    ELSE IF result.error = "ValueError"
    THEN [branch |-> "parse_error", status |-> "200",
          response |-> Some(_create_fallback_response(request, result.msg)),
          fallback |-> TRUE, stored |-> FALSE]
    ELSE [branch |-> "api_error", status |-> "200",
          response |-> Some(_create_fallback_response(request, result.msg)),
          fallback |-> TRUE, stored |-> FALSE]

(***************************************************************************)
(* Bounds and the inputs the environment supplies                          *)
(***************************************************************************)
MaxRequests == 3

MaxTick == 1

\* the coroutines that can be inside the handler at once
Slots == {"s1", "s2"}

\* the instants the clock is observed at
Times == {0} \cup {CACHE_TTL_SECONDS + i : i \in 0..MaxTick}

ReqA ==
    [book_id |-> Some("atomic-habits"), chapter_title |-> Some("The Power of Tiny Gains"),
     text_chunk |-> Rep("a", 100), mode |-> "chapter",
     prev_context |-> None, next_context |-> None]

\* ReqA again, with continuity context
ReqB == [ReqA EXCEPT !.prev_context = Some("previously")]

\* no book, no title, a body longer than the fallback preview
ReqC ==
    [book_id |-> None, chapter_title |-> None,
     text_chunk |-> Rep("c", 299) \o " " \o Rep("d", 50), mode |-> "law",
     prev_context |-> None, next_context |-> None]

Requests == {r \in {ReqA, ReqC} : SummaryRequestValid(r)}

NoNotes ==
    [compression_applied |-> "absent", long_chapter_handled |-> "absent",
     context_used_only_for_continuity |-> "absent"]

PlainBlock(hint) ==
    [type |-> Some("scene"), slide_title |-> "", headline |-> "H", body |-> "B", text |-> "",
     lyric_lines |-> <<>>, image_hint |-> hint, image_prompt |-> "P"]

\* a document whose i-th block is marked iff i is in hinted
Doc(title, n, hinted, vsu, notes) ==
    [well_formed |-> TRUE, is_object |-> TRUE, unit_title |-> Some(title),
     blocks |-> Some([i \in 1..n |-> PlainBlock(i \in hinted)]),
     visual_slots_used |-> vsu, notes |-> notes]

Bare(doc) == <<[t |-> "doc", v |-> doc]>>

Fenced(doc) ==
    <<[t |-> "fence"], [t |-> "json"], [t |-> "ws"], [t |-> "doc", v |-> doc],
      [t |-> "ws"], [t |-> "fence"]>>

Garbage == <<[t |-> "doc", v |-> [well_formed |-> FALSE]]>>

Said(text) == [kind |-> "text", msg |-> "", text |-> text]

Threw(msg) == [kind |-> "raise", msg |-> msg, text |-> <<>>]

\* the number of blocks in the document GeminiOutput(**data) accepted, if it accepted one
LoadedBlocks(data) ==
    IF data # None /\ GeminiOutputValid(Get(data)) THEN Some(Len(Get(Get(data).blocks)))
    ELSE None

\* the same for what generate_content_async gave
SaidBlocks(outcome) ==
    IF outcome.kind = "text" /\ outcome.text # <<>>
    THEN LoadedBlocks(JsonLoads(Cleaned(outcome.text)))
    ELSE None

\* what generate_content_async can do
GeneratorOutcomes ==
    {Threw("timeout"), Threw("network unreachable"), Said(<<>>), Said(Garbage),
     Said(Fenced(Doc("Tiny Gains", 6, {2}, 0,
                     [NoNotes EXCEPT !.compression_applied = "true",
                                     !.context_used_only_for_continuity = "false"]))),
     Said(Bare(Doc("Sparse", 2, {1}, 1, NoNotes))),
     Said(Bare(Doc("Empty", 0, {}, 0, NoNotes))),
     Said(Bare(Doc("", 10, {1, 3, 9, 10}, 1, NoNotes)))}

(***************************************************************************)
(* The server: requests inside the handler, the clock, the cache endpoints *)
(***************************************************************************)
NoStats == [hits |-> 0, misses |-> 0, stores |-> 0, evictions |-> 0]

EmptyCache == [k \in {} |-> 0]

IdleSlot ==
    [pc |-> "idle", request |-> None, response |-> None, status |-> "", branch |-> "",
     hit |-> FALSE, got |-> None, fallback |-> FALSE, parsed |-> None, raw_blocks |-> None,
     gets |-> 0, gen_calls |-> 0, parses |-> 0, puts |-> 0,
     expect_all |-> {}, expect_last |-> {}]

\* history: the responses returned after a store under key and still unexpired
Live(records) == {h.resp : h \in {x \in records : now <= x.expires_at}}

\* history after a store of h under key: `all` keeps what the STORE+RETURN path (a
\* normalised result of 3 blocks or more) returned, `lastp` what the latest store returned
StoredAs(key, h, normal) ==
    [k \in (DOMAIN hist) \cup {key} |->
        IF k = key
        THEN [all   |-> (IF key \in DOMAIN hist THEN hist[key].all ELSE {})
                            \cup (IF normal THEN {h} ELSE {}),
              lastp |-> {h}]
        ELSE hist[k]]

Stored(key, response, normal) ==
    StoredAs(key, [resp |-> response, expires_at |-> now + CACHE_TTL_SECONDS], normal)

\* the request's record once the handler has returned through h
Returned(slot, h) ==
    [slot EXCEPT !.pc = "done", !.response = h.response, !.status = h.status,
                 !.branch = h.branch, !.fallback = h.fallback,
                 !.puts = IF h.stored THEN 1 ELSE 0]

\* the request's record as the handler starts: cache.get has returned g.ret
Arrived(r, key, ret) ==
    [IdleSlot EXCEPT
        !.request = Some(r), !.gets = 1, !.hit = (ret # None), !.got = ret,
        !.expect_all = IF key \in DOMAIN hist THEN Live(hist[key].all) ELSE {},
        !.expect_last = IF key \in DOMAIN hist THEN Live(hist[key].lastp) ELSE {}]

\* coroutines are interchangeable: a new request takes the first free one
FirstIdle == IF slots["s1"].pc = "idle" THEN "s1" ELSE "s2"

\* the handler from `cached_response = cache.get(request)` to its first suspension, or
\* to its end when it meets none (a hit, or an initialisation error)
Handle(s, r, g, base, init) ==
    /\ cache' = g.cache
    /\ stats' = g.stats
    /\ IF ReturnsCached(g.ret)
       THEN /\ done' = [base EXCEPT !.pc = "done", !.response = g.ret,
                                    !.status = "200", !.branch = "hit"]
            /\ UNCHANGED <<slots, client>>
       ELSE IF init = "ok"
       THEN /\ slots' = [slots EXCEPT ![s] = [base EXCEPT !.pc = "generate", !.gen_calls = 1]]
            /\ client' = [client EXCEPT !.initialized = TRUE]
            /\ UNCHANGED done
       ELSE /\ done' = Returned([base EXCEPT !.gen_calls = 1],
                                generate_summary(r, Raise(init, "initialisation")))
            /\ UNCHANGED <<slots, client>>

\* POST /generateSummary arrives
Receive(s, r, model_built) ==
    /\ slots[s].pc = "idle"
    /\ s = FirstIdle
    /\ started < MaxRequests
    /\ started' = started + 1
    /\ Handle(s, r, get(r), Arrived(r, _generate_key(r), get(r).ret),
              _ensure_initialized(model_built))
    /\ UNCHANGED <<now, hist, last, norm>>

\* the handler from the return of `await gemini.generate_summary(request)` to its end
Resume(s, r, outcome, result, h) ==
    /\ slots' = [slots EXCEPT ![s] = IdleSlot]
    /\ done' = Returned([slots[s] EXCEPT
                            !.parsed = result.value,
                            !.raw_blocks = SaidBlocks(outcome),
                            !.parses = IF outcome.kind = "text" /\ outcome.text # <<>>
                                       THEN 1 ELSE 0],
                       IF h.stored
                       THEN [h EXCEPT !.response = Some(store(r, Get(h.response)).response)]
                       ELSE h)
    /\ cache' = IF h.stored THEN store(r, Get(h.response)).cache ELSE cache
    /\ stats' = IF h.stored THEN store(r, Get(h.response)).stats ELSE stats
    /\ hist' = IF h.stored THEN Stored(_generate_key(r), Get(h.response), ~h.fallback) ELSE hist

\* mutant: after a transport error the call is awaited once more
Respond_retries(s, outcome) ==
    /\ slots[s].pc = "generate"
    /\ IF outcome.kind = "raise" /\ slots[s].gen_calls < 2
       THEN /\ slots' = [slots EXCEPT ![s].gen_calls = @ + 1]
            /\ UNCHANGED <<cache, stats, done, hist>>
       ELSE Resume(s, Get(slots[s].request), outcome,
                   gemini_generate_summary(outcome, Get(slots[s].request)),
                   generate_summary(Get(slots[s].request),
                                    gemini_generate_summary(outcome, Get(slots[s].request))))
    /\ UNCHANGED <<now, client, started, last, norm>>

\* generate_content_async returns or raises
Respond(s, outcome) ==
    /\ slots[s].pc = "generate"
    /\ Resume(s, Get(slots[s].request), outcome,
              gemini_generate_summary(outcome, Get(slots[s].request)),
              generate_summary(Get(slots[s].request),
                               gemini_generate_summary(outcome, Get(slots[s].request))))
    /\ UNCHANGED <<now, client, started, last, norm>>

\* time passes
Tick(t) ==
    /\ t > now
    /\ now' = t
    /\ UNCHANGED <<cache, stats, client, slots, done, started, hist, last, norm>>

\* mutant: clearing the cache also drops the requests awaiting the generator
ClearCache_cancels ==
    /\ cache # EmptyCache
    /\ cache' = clear.cache
    /\ hist' = EmptyCache
    /\ slots' = [s \in Slots |-> IdleSlot]
    /\ UNCHANGED <<now, stats, client, done, started, last, norm>>

\* DELETE /cache
ClearCache ==
    /\ cache # EmptyCache
    /\ cache' = clear.cache
    /\ hist' = EmptyCache
    /\ UNCHANGED <<now, stats, client, slots, done, started, last, norm>>

\* CacheService.invalidate, called by an operator
InvalidateEntry(r) ==
    /\ invalidate(r).ret
    /\ cache' = invalidate(r).cache
    /\ hist' = Remove(hist, {_generate_key(r)})
    /\ UNCHANGED <<now, stats, client, slots, done, started, last, norm>>

(***************************************************************************)
(* The cache service called directly                                       *)
(***************************************************************************)
MaxCalls == 3

NoCall == <<>>

\* responses a caller can hand to store
StorePayloads ==
    LET a == _create_fallback_response(ReqC, "")
        b == Get(_parse_gemini_response(Bare(Doc("Tiny Gains", 4, {1, 3}, 0, NoNotes)), ReqA).value)
    IN  {a, [b EXCEPT !.cached = TRUE]}

Calls == IF last = NoCall THEN 0 ELSE last[1].n

\* the record of a call: what it was given, what it met and what it returned
Call(op, key, arg, ret) ==
    [n |-> Calls + 1, op |-> op, key |-> key, t |-> now, arg |-> arg, ret |-> ret,
     pre_cache |-> cache, pre_stats |-> stats]

\* the two most recent calls, the latest first
Logged(call) == IF last = NoCall THEN <<call>> ELSE <<call, last[1]>>

ApiGet(r) ==
    /\ Calls < MaxCalls
    /\ cache' = get(r).cache
    /\ stats' = get(r).stats
    /\ last' = Logged(Call("get", _generate_key(r), None, get(r).ret))
    /\ UNCHANGED <<now, client, slots, done, started, hist, norm>>

ApiStore(r, p) ==
    /\ Calls < MaxCalls
    /\ cache' = store(r, p).cache
    /\ stats' = store(r, p).stats
    /\ last' = Logged(Call("store", _generate_key(r), Some(p), None))
    /\ UNCHANGED <<now, client, slots, done, started, hist, norm>>

ApiInvalidate(r) ==
    /\ Calls < MaxCalls
    /\ cache' = invalidate(r).cache
    /\ last' = Logged(Call("invalidate", _generate_key(r), None, Some(invalidate(r).ret)))
    /\ UNCHANGED <<now, stats, client, slots, done, started, hist, norm>>

ApiClear ==
    /\ Calls < MaxCalls
    /\ cache' = clear.cache
    /\ last' = Logged(Call("clear", "", None, Some(clear.ret)))
    /\ UNCHANGED <<now, stats, client, slots, done, started, hist, norm>>

ApiStats ==
    /\ Calls < MaxCalls
    /\ last' = Logged(Call("get_stats", "", None, Some(get_stats)))
    /\ UNCHANGED <<now, cache, stats, client, slots, done, started, hist, norm>>

(***************************************************************************)
(* Key derivation called on its own                                        *)
(***************************************************************************)
\* what a caller can send as book_id: absent, empty, the sentinel text, text that holds
\* the separator
KeyBooks == {None, Some(""), Some("none"), Some("a"), Some("a|b")}

KeyTitles == {None, Some("none"), Some("c"), Some("b|c")}

\* bodies of 1000 characters and of more: the same first and last 500 around middles of
\* 1, 200 and 300 characters, and one whose first 500 differ
LongKeyTexts ==
    {Rep("a", 500) \o Rep("b", 500),
     Rep("a", 500) \o "m" \o Rep("b", 500),
     Rep("a", 500) \o Rep("m", 200) \o Rep("b", 500),
     Rep("a", 500) \o Rep("n", 200) \o Rep("b", 500),
     Rep("a", 500) \o Rep("m", 300) \o Rep("b", 500),
     Rep("a", 499) \o "z" \o Rep("m", 200) \o Rep("b", 500)}

KeyTexts == {Rep("a", 100), Rep("b", 100)} \cup LongKeyTexts

KeyContexts == {None, Some("previously")}

KeyBase ==
    [book_id |-> None, chapter_title |-> None, text_chunk |-> Rep("a", 100),
     mode |-> "chapter", prev_context |-> None, next_context |-> None]

\* every book, title and context around one body and mode, and every body and mode
KeyShapes ==
    {[KeyBase EXCEPT !.book_id = x[1], !.chapter_title = x[2], !.prev_context = x[3]] :
        x \in KeyBooks \X KeyTitles \X KeyContexts}
    \cup {[KeyBase EXCEPT !.text_chunk = x[1], !.mode = x[2]] :
            x \in KeyTexts \X {"chapter", "law"}}

KeyRequests == {r \in KeyShapes : SummaryRequestValid(r)}

\* a service that has stored one response
UsedCache == Put(EmptyCache, _generate_key(ReqA), NewEntry(_create_fallback_response(ReqA, "")))

UsedStats == [hits |-> 0, misses |-> 1, stores |-> 1, evictions |-> 0]

\* self._generate_key(request)
ApiKey(r) ==
    /\ Calls < MaxCalls
    /\ last' = Logged(Call("_generate_key", "", Some(r), Some(_generate_key(r))))
    /\ UNCHANGED <<now, cache, stats, client, slots, done, started, hist, norm>>

(***************************************************************************)
(* The fallback builder called on its own                                  *)
(***************************************************************************)
\* bodies shorter than the preview, with a blank as 300th character, of exactly 300
\* characters, and of 301
FallbackTexts ==
    {Rep("a", 100), Rep("c", 299) \o " " \o Rep("d", 50), Rep("e", 300), Rep("f", 301)}

FallbackRequests ==
    {r \in {[KeyBase EXCEPT !.chapter_title = x[1], !.text_chunk = x[2]] :
               x \in {None, Some(""), Some("c")} \X FallbackTexts} :
        SummaryRequestValid(r)}

ErrorTexts == {"Empty response from Gemini", "timeout"}

\* _create_fallback_response(request, error_msg)
ApiFallback(r, msg) ==
    /\ Calls < MaxCalls
    /\ last' = Logged(Call("_create_fallback_response", "",
                           Some([request |-> r, error_msg |-> msg]),
                           Some(_create_fallback_response(r, msg))))
    /\ UNCHANGED <<now, cache, stats, client, slots, done, started, hist, norm>>

(***************************************************************************)
(* The normaliser run on its own                                           *)
(***************************************************************************)
MaxRawBlocks == 10

NoNorm == [raw |-> <<>>, request |-> None, result |-> None]

\* one block of a document can depart from the plain block
Variants == {"plain", "unknown", "long_tag", "no_type", "long_prompt", "titled", "legacy"}

VariantBlock(v, hint) ==
    CASE v = "unknown"     -> [PlainBlock(hint) EXCEPT !.type = Some("mystery")]
      [] v = "long_tag"    -> [PlainBlock(hint) EXCEPT !.type = Some(Rep("x", 31))]
      [] v = "no_type"     -> [PlainBlock(hint) EXCEPT !.type = None]
      [] v = "long_prompt" -> [PlainBlock(hint) EXCEPT !.image_prompt = Rep("p", 501)]
      [] v = "titled"      -> [PlainBlock(hint) EXCEPT !.type = Some("core_idea"),
                                                       !.slide_title = "PLOT TWIST"]
      [] v = "legacy"      -> [PlainBlock(hint) EXCEPT !.body = "", !.text = "T"]
      [] OTHER             -> PlainBlock(hint)

\* n blocks, those in hinted marked, block sp of variant v
VariantDoc(n, hinted, sp, v) ==
    [well_formed |-> TRUE, is_object |-> TRUE, unit_title |-> Some("Unit"),
     blocks |-> Some([i \in 1..n |-> IF i = sp THEN VariantBlock(v, i \in hinted)
                                     ELSE PlainBlock(i \in hinted)]),
     visual_slots_used |-> 0, notes |-> NoNotes]

BaseDoc == Doc("Unit", 3, {1, 2, 3}, 3, NoNotes)

\* departures from a clean document: its wrapping, its shape, its notes
OddResponses ==
    {Fenced(BaseDoc), Garbage,
     <<[t |-> "ws"], [t |-> "doc", v |-> BaseDoc], [t |-> "ws"]>>,
     <<[t |-> "fence"], [t |-> "tag"], [t |-> "ws"], [t |-> "doc", v |-> BaseDoc], [t |-> "fence"]>>,
     <<[t |-> "fence"], [t |-> "ws"], [t |-> "doc", v |-> BaseDoc], [t |-> "ws"], [t |-> "fence"]>>,
     <<[t |-> "doc", v |-> BaseDoc], [t |-> "ws"], [t |-> "tag"]>>,
     Bare([BaseDoc EXCEPT !.is_object = FALSE]),
     Bare([BaseDoc EXCEPT !.unit_title = None]),
     Bare([BaseDoc EXCEPT !.unit_title = Some("")]),
     Bare([BaseDoc EXCEPT !.blocks = None]),
     Bare([BaseDoc EXCEPT !.notes.compression_applied = "bad"]),
     Bare([BaseDoc EXCEPT !.notes.long_chapter_handled = "true",
                          !.notes.context_used_only_for_continuity = "false"])}

\* the shapes of document tried: <<n, hinted, sp, v>>
DocShapes ==
    {x \in (0..MaxRawBlocks) \X (SUBSET (1..MaxRawBlocks)) \X {0, 1, 3, MAX_SLIDES + 1} \X Variants :
        /\ x[2] \subseteq 1..x[1]
        /\ x[3] <= x[1]
        /\ x[3] = 0 => x[4] = "plain"}

RawResponses ==
    OddResponses \cup {Bare(VariantDoc(x[1], x[2], x[3], x[4])) : x \in DocShapes}

\* a response text arrives for a request
Normalize ==
    /\ norm.raw # <<>>
    /\ norm.result = None
    /\ norm' = [norm EXCEPT
                   !.result = Some(_parse_gemini_response(norm.raw, Get(norm.request)))]
    /\ UNCHANGED <<now, cache, stats, client, slots, done, started, hist, last>>

Init ==
    /\ now = 0
    /\ cache = EmptyCache
    /\ stats = NoStats
    /\ client \in {[initialized |-> FALSE, api_key |-> k] : k \in {"", "key"}}
    /\ slots = [s \in Slots |-> IdleSlot]
    /\ done = IdleSlot
    /\ started = 0
    /\ hist = EmptyCache
    /\ last = NoCall
    /\ norm = NoNorm

Next ==
    \/ \E s \in Slots, r \in Requests, b \in BOOLEAN : Receive(s, r, b)
    \/ \E s \in Slots, o \in GeneratorOutcomes : Respond(s, o)
    \/ \E t \in Times : Tick(t)
    \/ ClearCache
    \/ \E r \in Requests : InvalidateEntry(r)

Spec == Init /\ [][Next]_vars

\* the coroutine suspended in s is resumed and runs to its return: a step
\* Respond(s, o), for some outcome o, as the slots show it
Resumed(s) == slots[s].pc = "generate" /\ slots' = [slots EXCEPT ![s] = IdleSlot]

\* the awaited generator call returns or raises, and the event loop then resumes the
\* coroutine that awaits it
SpecLive == Init /\ [][Next]_vars /\ \A s \in Slots : WF_slots(Resumed(s))

Quiet ==
    /\ now = 0
    /\ cache = EmptyCache
    /\ client = [initialized |-> FALSE, api_key |-> "key"]
    /\ slots = [s \in Slots |-> IdleSlot]
    /\ done = IdleSlot
    /\ started = 0
    /\ hist = EmptyCache
    /\ last = NoCall

\* the counters of a service that has stored 98 responses, served 2 lookups, missed 1
\* and was then cleared
ServedStats == [hits |-> 2, misses |-> 1, stores |-> CLEANUP_EVERY - 2, evictions |-> 0]

\* the cache service on its own, fresh or two stores short of a sweep
InitCache ==
    /\ Quiet
    /\ stats \in {NoStats, ServedStats}
    /\ norm = NoNorm

NextCache ==
    \/ \E r \in Requests : ApiGet(r)
    \/ \E r \in Requests, p \in StorePayloads : ApiStore(r, p)
    \/ \E r \in Requests : ApiInvalidate(r)
    \/ ApiClear
    \/ ApiStats
    \/ \E t \in Times : Tick(t)

SpecCache == InitCache /\ [][NextCache]_vars

\* the normaliser on its own
InitNorm ==
    /\ Quiet
    /\ stats = NoStats
    /\ norm \in {[raw |-> x, request |-> Some(r), result |-> None] :
                    x \in RawResponses, r \in {ReqC}}

NextNorm == Normalize

SpecNorm == InitNorm /\ [][NextNorm]_vars

\* key derivation on its own, in a fresh service or in one that has stored a response
InitKey ==
    /\ now = 0
    /\ \E u \in {<<EmptyCache, NoStats>>, <<UsedCache, UsedStats>>} :
          cache = u[1] /\ stats = u[2]
    /\ client = [initialized |-> FALSE, api_key |-> "key"]
    /\ slots = [s \in Slots |-> IdleSlot]
    /\ done = IdleSlot
    /\ started = 0
    /\ hist = EmptyCache
    /\ last = NoCall
    /\ norm = NoNorm

NextKey == \E r \in KeyRequests : ApiKey(r)

SpecKey == InitKey /\ [][NextKey]_vars

\* the fallback builder on its own
InitFallback ==
    /\ Quiet
    /\ stats = NoStats
    /\ norm = NoNorm

NextFallback == \E r \in FallbackRequests, msg \in ErrorTexts : ApiFallback(r, msg)

SpecFallback == InitFallback /\ [][NextFallback]_vars

(***************************************************************************)
(* Properties                                                              *)
(***************************************************************************)
Hinted(blocks) == {i \in 1..Len(blocks) : blocks[i].image_hint}

SameContent(a, b) == a.unit_title = b.unit_title /\ a.blocks = b.blocks

IsFallbackFor(response, request) ==
    response = _create_fallback_response(request, "")

\* C1: whatever the generator does (output, error, empty text, no credentials, malformed
\* or sparse output), a request that has returned has returned status 200 with a valid
\* SummaryResponse: no error reaches the caller.
C1_AlwaysAResult ==
    done.pc = "done" =>
        /\ done.status = "200"
        /\ done.response # None
        /\ SummaryResponseValid(Get(done.response))
        /\ done.branch \in {"hit", "store", "parse_error", "api_error"}

\* a transport error was raised and the request returned the fallback
C1_Witness ==
    /\ done.pc = "done"
    /\ done.branch = "api_error"
    /\ done.gen_calls = 1
    /\ done.status = "200"
    /\ IsFallbackFor(Get(done.response), Get(done.request))

\* C2: a request that returns a fallback result performs no put on the cache.
C2_FallbackNeverStored ==
    done.pc = "done" /\ done.fallback => done.puts = 0

\* C3: a generator result with fewer than 3 blocks is answered with the 3-block fallback,
\* and no cache entry ever holds a result with fewer than 3 blocks.
C3_SparseGivesFallback ==
    /\ done.pc = "done" /\ done.parsed # None /\ Len(Get(done.parsed).blocks) < MIN_BLOCKS =>
           /\ IsFallbackFor(Get(done.response), Get(done.request))
           /\ Len(Get(done.response).blocks) = 3
    /\ \A k \in DOMAIN cache : Len(cache[k].data.blocks) >= MIN_BLOCKS

\* the generator gave two valid blocks and the request returned three
C3_Witness ==
    /\ done.pc = "done"
    /\ done.parsed # None
    /\ Len(Get(done.parsed).blocks) = 2
    /\ Len(Get(done.response).blocks) = 3

\* C4 as stated: a request that follows a stored response for its key, before that
\* entry's expiry and with no invalidate or clear in between, returns that response's
\* title and blocks with cached = true.  (Stated of the responses that are no fallback,
\* so that a stored fallback plays no part in its failure.)
C4_RepeatReturnsFirst ==
    done.pc = "done"
    /\ ~SameContent(Get(done.response), _create_fallback_response(Get(done.request), "")) =>
        \A e \in done.expect_all :
            SameContent(Get(done.response), e) /\ Get(done.response).cached

\* C4 amended: ... and with no other store under the key in between.
C4_RepeatReturnsLatest ==
    done.pc = "done" =>
        \A e \in done.expect_last :
            /\ done.hit
            /\ SameContent(Get(done.response), e)
            /\ Get(done.response).cached

\* a six-block result was stored and a later request for the key was served it
C4_Witness ==
    /\ done.pc = "done"
    /\ done.expect_last # {}
    /\ done.hit
    /\ Len(Get(done.response).blocks) = 6
    /\ Get(done.response).cached

\* C5: a request whose lookup hits never calls the generator, never validates, never
\* stores, and returns the looked-up response.
C5_HitReturnsAtOnce ==
    /\ \A s \in Slots : slots[s].pc = "generate" => ~slots[s].hit
    /\ done.pc = "done" /\ done.hit =>
           /\ done.gen_calls = 0
           /\ done.parses = 0
           /\ done.puts = 0
           /\ done.response = done.got

\* a lookup hit and the request returned
C5_Witness ==
    /\ done.pc = "done"
    /\ done.hit
    /\ done.branch = "hit"
    /\ stats.hits >= 1

LastCall == last[1]

PrevCall == last[2]

\* C6: store(K, P) followed at once by get(K) returns P with cached = true, whatever
\* P.cached was.
C6_RoundTrip ==
    Len(last) = 2 /\ LastCall.op = "get" /\ PrevCall.op = "store"
        /\ LastCall.key = PrevCall.key /\ LastCall.t <= PrevCall.t + CACHE_TTL_SECONDS =>
            LastCall.ret = Some([Get(PrevCall.arg) EXCEPT !.cached = TRUE])

\* a response with cached = true was stored and then looked up
C6_Witness ==
    /\ Len(last) = 2
    /\ LastCall.op = "get"
    /\ PrevCall.op = "store"
    /\ LastCall.key = PrevCall.key
    /\ Get(PrevCall.arg).cached
    /\ Get(PrevCall.arg).visual_slots_used = 2
    /\ LastCall.ret # None

\* the entry get met under its key
MetEntry == LastCall.pre_cache[LastCall.key]

\* C7: an entry stored at t0 is a hit at any time up to t0 + TTL; after that a get
\* returns nothing, deletes the entry and adds 1 to misses and to evictions, hits unchanged.
C7_Expiry ==
    last # NoCall /\ LastCall.op = "get" /\ LastCall.key \in DOMAIN LastCall.pre_cache =>
        IF LastCall.t <= MetEntry.created_at + CACHE_TTL_SECONDS
        THEN /\ LastCall.ret # None
             /\ LastCall.key \in DOMAIN cache
        ELSE /\ LastCall.ret = None
             /\ LastCall.key \notin DOMAIN cache
             /\ stats.misses = LastCall.pre_stats.misses + 1
             /\ stats.evictions = LastCall.pre_stats.evictions + 1
             /\ stats.hits = LastCall.pre_stats.hits

\* a get one second after the deadline
C7_Witness ==
    /\ last # NoCall
    /\ LastCall.op = "get"
    /\ LastCall.key \in DOMAIN LastCall.pre_cache
    /\ LastCall.t = MetEntry.created_at + CACHE_TTL_SECONDS + 1
    /\ LastCall.ret = None
    /\ stats.evictions = LastCall.pre_stats.evictions + 1

\* C8: get never returns the payload of an entry whose expires_at is before the current
\* time, whether or not the sweep has run.
C8_NoExpiredPayload ==
    last # NoCall /\ LastCall.op = "get" /\ LastCall.ret # None =>
        /\ LastCall.key \in DOMAIN LastCall.pre_cache
        /\ ~(MetEntry.expires_at < LastCall.t)
        /\ SameContent(Get(LastCall.ret), MetEntry.data)

\* an expired entry no sweep had removed was looked up, and nothing was returned
C8_Witness ==
    /\ last # NoCall
    /\ LastCall.op = "get"
    /\ LastCall.key \in DOMAIN LastCall.pre_cache
    /\ MetEntry.expires_at < LastCall.t
    /\ LastCall.pre_stats.stores < CLEANUP_EVERY
    /\ LastCall.ret = None

\* the document inside the response text
RawDoc == (CHOOSE tok \in {norm.raw[i] : i \in 1..Len(norm.raw)} : tok.t = "doc").v

Normalized == Get(Get(norm.result).value)

Normalizes == norm.result # None /\ Get(norm.result).ok

\* C9 as stated: a raw output with more than 2 marked blocks, of any length, normalises
\* to a result with exactly 2 marked blocks and visual_slots_used = 2.
C9_AnyThreeMarked ==
    Normalizes /\ Cardinality(Hinted(Get(RawDoc.blocks))) > 2 =>
        /\ Cardinality(Hinted(Normalized.blocks)) = 2
        /\ Normalized.visual_slots_used = 2

\* C9 amended: ... with more than 2 marked blocks among its first 8 ...
C9_ThreeMarkedInFirstEight ==
    Normalizes /\ Cardinality(Hinted(KeptBlocks(RawDoc))) > 2 =>
        /\ Cardinality(Hinted(Normalized.blocks)) = 2
        /\ Normalized.visual_slots_used = 2

\* ten blocks, five of the first eight marked, normalised
C9_Witness ==
    /\ Normalizes
    /\ Len(Get(RawDoc.blocks)) = 10
    /\ Cardinality(Hinted(KeptBlocks(RawDoc))) = 5
    /\ Cardinality(Hinted(Normalized.blocks)) = 2

\* C10: every response returned (normalised, cached or fallback) has visual_slots_used
\* equal to its number of marked blocks, and at most 2.
C10_VisualSlotsCounted ==
    done.pc = "done" /\ done.response # None =>
        /\ Get(done.response).visual_slots_used = Cardinality(Hinted(Get(done.response).blocks))
        /\ Get(done.response).visual_slots_used <= MAX_VISUAL_SLOTS

\* the generator marked four blocks and claimed one slot; two were passed
C10_Witness ==
    /\ done.pc = "done"
    /\ done.branch = "store"
    /\ ~done.fallback
    /\ Len(Get(done.response).blocks) = 8
    /\ Get(done.response).visual_slots_used = 2

\* the two requests agree on book_id, chapter_title, content and mode
SameKeyFields(a, b) ==
    /\ a.book_id = b.book_id
    /\ a.chapter_title = b.chapter_title
    /\ a.text_chunk = b.text_chunk
    /\ a.mode = b.mode

\* the last two calls were key derivations
TwoKeys ==
    Len(last) = 2 /\ LastCall.op = "_generate_key" /\ PrevCall.op = "_generate_key"

\* C11: two requests equal in book_id, chapter_title, content and mode get the same key,
\* whatever their contexts, whatever the cache and its counters hold and however many
\* derivations came before.
C11_KeyIsPure ==
    TwoKeys /\ SameKeyFields(Get(LastCall.arg), Get(PrevCall.arg)) =>
        LastCall.ret = PrevCall.ret

\* a third derivation, in a service that holds an entry, for a request that differs from
\* the one before only in its context
C11_Witness ==
    /\ TwoKeys
    /\ LastCall.n = 3
    /\ LastCall.pre_cache # EmptyCache
    /\ SameKeyFields(Get(LastCall.arg), Get(PrevCall.arg))
    /\ Get(LastCall.arg).prev_context # Get(PrevCall.arg).prev_context
    /\ LastCall.ret = PrevCall.ret

\* C12: two requests of at most 1000 characters that differ in book_id, chapter_title,
\* content or mode never get the same key material, absent and empty fields, the sentinel
\* text and text holding the separator included.
C12_NoCollision ==
    TwoKeys /\ Len(Get(LastCall.arg).text_chunk) <= 1000
            /\ Len(Get(PrevCall.arg).text_chunk) <= 1000
            /\ ~SameKeyFields(Get(LastCall.arg), Get(PrevCall.arg)) =>
        LastCall.ret # PrevCall.ret

\* C13: a returned response has cached = true exactly when this request's lookup served
\* it; a response returned after the generator was called (stored or fallback) has
\* cached = false, also after store has been handed it.
C13_CachedIffServed ==
    done.pc = "done" /\ done.response # None =>
        /\ Get(done.response).cached <=> done.hit
        /\ done.hit <=> done.branch = "hit"
        /\ done.gen_calls > 0 => ~Get(done.response).cached
        /\ done.puts > 0 => ~Get(done.response).cached

\* a normalised result was stored and returned, and the entry is in the cache
C13_Witness ==
    /\ done.pc = "done"
    /\ done.branch = "store"
    /\ done.puts = 1
    /\ ~done.fallback
    /\ ~Get(done.response).cached
    /\ _generate_key(Get(done.request)) \in DOMAIN cache

\* the request returned through one of the two except branches
Failed(d) == d.pc = "done" /\ d.branch \in {"parse_error", "api_error"}

\* a request that shares nothing with r but its chapter title and content
TitleAndContent(r) ==
    [KeyBase EXCEPT !.chapter_title = r.chapter_title, !.text_chunk = r.text_chunk]

\* the run that has just returned left no entry under its key that was not there before
WroteNothing ==
    /\ stats'.stores = stats.stores
    /\ _generate_key(Get(done'.request)) \in DOMAIN cache' =>
          /\ _generate_key(Get(done'.request)) \in DOMAIN cache
          /\ cache'[_generate_key(Get(done'.request))] = cache[_generate_key(Get(done'.request))]

\* C14: the fallback of a run whose generator failed is determined by the request's
\* chapter title and content alone (not by the error kind or text, nor by the cache), and
\* the run stores nothing: a lookup that missed before it misses after it.
C14_FallbackOfRequestAlone ==
    /\ [](Failed(done) =>
            /\ SameContent(Get(done.response),
                           _create_fallback_response(TitleAndContent(Get(done.request)), ""))
            /\ done.puts = 0)
    /\ [][done' # done /\ Failed(done') => WroteNothing]_vars

\* two runs, both missed, both returned, the later one through a parse error; nothing
\* was stored
C14_Witness ==
    /\ Failed(done)
    /\ done.branch = "parse_error"
    /\ done.parses = 1
    /\ started = 2
    /\ stats.misses = 2
    /\ stats.stores = 0
    /\ cache = EmptyCache
    /\ \A s \in Slots : slots[s].pc = "idle"

\* the last call built a fallback
BuiltFallback == last # NoCall /\ LastCall.op = "_create_fallback_response"

FallbackOf == Get(LastCall.ret)

FallbackFor == Get(LastCall.arg).request

\* three blocks, no visual slot, not cached, no block marked
FallbackFrame ==
    /\ Len(FallbackOf.blocks) = 3
    /\ FallbackOf.visual_slots_used = 0
    /\ ~FallbackOf.cached
    /\ Hinted(FallbackOf.blocks) = {}

Ellipsis == IF Len(FallbackFor.text_chunk) > 300 THEN "..." ELSE ""

\* C15 as stated: the title is the chapter title when one is supplied and a generic label
\* otherwise, and the first block is built from the first 300 characters of the content,
\* followed by an ellipsis exactly when the content is longer.
C15_FallbackShape ==
    BuiltFallback =>
        /\ FallbackFrame
        /\ FallbackOf.unit_title =
              (IF FallbackFor.chapter_title # None THEN Get(FallbackFor.chapter_title)
               ELSE "Chapter Summary")
        /\ FallbackOf.blocks[1].text =
              "This chapter covers: " \o Prefix(FallbackFor.text_chunk, 300) \o Ellipsis

\* C15 amended: ... the chapter title when a non-empty one is supplied ..., the first 300
\* characters with the blanks around them removed ...
C15_FallbackShapeStripped ==
    BuiltFallback =>
        /\ FallbackFrame
        /\ FallbackOf.unit_title =
              (IF FallbackFor.chapter_title \notin {None, Some("")}
               THEN Get(FallbackFor.chapter_title) ELSE "Chapter Summary")
        /\ FallbackOf.blocks[1].text =
              "This chapter covers: " \o Strip(Prefix(FallbackFor.text_chunk, 300)) \o Ellipsis

\* a fallback for a body of exactly 300 characters under a title: no ellipsis
C15_Witness ==
    /\ BuiltFallback
    /\ Len(FallbackFor.text_chunk) = 300
    /\ FallbackFor.chapter_title = Some("c")
    /\ FallbackOf.unit_title = "c"
    /\ Len(FallbackOf.blocks[1].text) = 321

\* C16: invalidate returns true exactly when an entry was present under the key, expired
\* or not; afterwards the key is absent, every other entry is as it was and the four
\* counters are as they were.
C16_InvalidateFrame ==
    last # NoCall /\ LastCall.op = "invalidate" =>
        /\ LastCall.ret = Some(LastCall.key \in DOMAIN LastCall.pre_cache)
        /\ DOMAIN cache = (DOMAIN LastCall.pre_cache) \ {LastCall.key}
        /\ \A k \in DOMAIN cache : cache[k] = LastCall.pre_cache[k]
        /\ stats = LastCall.pre_stats

\* an expired entry was invalidated and another entry stayed
C16_Witness ==
    /\ last # NoCall
    /\ LastCall.op = "invalidate"
    /\ LastCall.key \in DOMAIN LastCall.pre_cache
    /\ MetEntry.expires_at < LastCall.t
    /\ LastCall.ret = Some(TRUE)
    /\ Cardinality(DOMAIN cache) = 1

\* C17: clear returns the number of entries present before it, expired ones included,
\* leaves no entry and leaves the four counters as they were; a second clear right after
\* returns 0.
C17_ClearFrame ==
    /\ last # NoCall /\ LastCall.op = "clear" =>
          /\ LastCall.ret = Some(Cardinality(DOMAIN LastCall.pre_cache))
          /\ cache = EmptyCache
          /\ stats = LastCall.pre_stats
    /\ Len(last) = 2 /\ LastCall.op = "clear" /\ PrevCall.op = "clear" =>
          LastCall.ret = Some(0)

\* a clear that removed an entry, and a second clear right after it
C17_Witness ==
    /\ Len(last) = 2
    /\ LastCall.op = "clear"
    /\ PrevCall.op = "clear"
    /\ PrevCall.ret = Some(1)
    /\ LastCall.ret = Some(0)
    /\ stats.stores = PrevCall.pre_stats.stores

\* the last call read the statistics
ReadStats == last # NoCall /\ LastCall.op = "get_stats"

StatsOf == Get(LastCall.ret)

\* the entries and the four counters as they stand, nothing changed by the call
StatsFrame ==
    /\ StatsOf.entries = Cardinality(DOMAIN cache)
    /\ StatsOf.hits = stats.hits
    /\ StatsOf.misses = stats.misses
    /\ StatsOf.stores = stats.stores
    /\ StatsOf.evictions = stats.evictions
    /\ cache = LastCall.pre_cache
    /\ stats = LastCall.pre_stats
    /\ StatsOf.hit_rate_percent >= 0
    /\ StatsOf.hit_rate_percent <= 10000
    /\ stats.hits + stats.misses = 0 => StatsOf.hit_rate_percent = 0

\* C18 as stated: hit_rate_percent equals 100 * hits / (hits + misses).
C18_ExactRate ==
    ReadStats =>
        /\ StatsFrame
        /\ StatsOf.hit_rate_percent * (stats.hits + stats.misses) = 10000 * stats.hits

\* C18 amended: ... equals 100 * hits / (hits + misses) rounded to two decimals: it is a
\* number of two decimals at most 0.005 away from the ratio.
C18_RoundedRate ==
    ReadStats =>
        /\ StatsFrame
        /\ 2 * (StatsOf.hit_rate_percent * (stats.hits + stats.misses) - 10000 * stats.hits)
              <= stats.hits + stats.misses
        /\ 2 * (10000 * stats.hits - StatsOf.hit_rate_percent * (stats.hits + stats.misses))
              <= stats.hits + stats.misses

\* two hits in three lookups read as 66.67, with an entry in the cache
C18_Witness ==
    /\ ReadStats
    /\ stats.hits = 2
    /\ stats.misses = 1
    /\ StatsOf.hit_rate_percent = 6667
    /\ StatsOf.entries = 1

\* some request is suspended in `await gemini.generate_summary(request)`
Suspended == \E s \in Slots : slots[s].pc = "generate"

\* what any request can observe of the store: whole entries and counters that account
\* for every lookup made
StoreWhole ==
    /\ \A k \in DOMAIN cache :
          /\ cache[k].expires_at = cache[k].created_at + CACHE_TTL_SECONDS
          /\ cache[k].hit_count >= 0
          /\ SummaryResponseValid(cache[k].data)
          /\ ~cache[k].data.cached
    /\ stats.hits + stats.misses = started
    /\ stats.evictions <= stats.misses
    /\ Cardinality(DOMAIN cache) <= stats.stores

\* C19: get, store, invalidate and clear each run as one step (no request sees a
\* half-updated entry map or counters), and nothing holds the store while a request
\* awaits the generator: other requests can look up, and the cache can be cleared and
\* invalidated, while one is suspended.
C19_StoreNotHeld ==
    /\ StoreWhole
    /\ Suspended =>
          /\ cache # EmptyCache => ENABLED ClearCache
          /\ \A r \in Requests :
                /\ _generate_key(r) \in DOMAIN cache => ENABLED InvalidateEntry(r)
                /\ started < MaxRequests /\ (\E s \in Slots : slots[s].pc = "idle") =>
                      ENABLED Receive(FirstIdle, r, TRUE)

\* a request stored its result while another, which had looked up the same key before,
\* was still suspended
C19_Witness ==
    /\ now = 0
    /\ started = 2
    /\ stats.misses = 2
    /\ stats.stores = 1
    /\ done.pc = "done"
    /\ done.branch = "store"
    /\ \E s \in Slots :
          /\ slots[s].pc = "generate"
          /\ _generate_key(Get(slots[s].request)) \in DOMAIN cache

\* a suspended request resumes with a usable result, stores it and returns
StoreStep(s) ==
    /\ slots[s].pc = "generate"
    /\ slots'[s].pc = "idle"
    /\ done'.pc = "done"
    /\ done'.branch = "store"
    /\ ~done'.fallback

\* the put of the request that has just returned: one more store, and under the key the
\* payload just returned, unread, whatever was there before
PutApplied(key) ==
    /\ stats'.stores = stats.stores + 1
    /\ key \in DOMAIN cache'
    /\ cache'[key].data = [Get(done'.response) EXCEPT !.cached = FALSE]
    /\ cache'[key].hit_count = 0
    /\ cache'[key].created_at = now
    /\ \A k \in (DOMAIN cache) \ {key} : k \in DOMAIN cache' /\ cache'[k] = cache[k]

\* every entry holds what the latest put under its key was handed
HoldsLatestPut ==
    \A k \in DOMAIN cache :
        /\ k \in DOMAIN hist
        /\ \E h \in hist[k].lastp :
              /\ cache[k].data = [h.resp EXCEPT !.cached = FALSE]
              /\ cache[k].expires_at = h.expires_at

\* C20: two overlapping requests for one key can both miss and both call the generator;
\* each put that follows is applied (one more store each, two in all), the key keeps one
\* entry, and that entry holds the payload of the put that ran last, with hit_count 0.
C20_BothPutsApplied ==
    /\ []HoldsLatestPut
    /\ [][\A s \in Slots : StoreStep(s) => PutApplied(_generate_key(Get(slots[s].request)))]_vars

\* two requests for one key both missed and both stored, the second while the entry of
\* the first was in place; the entry holds what the second returned
C20_Witness ==
    /\ now = 0
    /\ started = 2
    /\ stats.misses = 2
    /\ stats.hits = 0
    /\ stats.stores = 2
    /\ \A s \in Slots : slots[s].pc = "idle"
    /\ done.pc = "done"
    /\ done.branch = "store"
    /\ ~done.fallback
    /\ done.expect_last = {}
    /\ DOMAIN cache = {_generate_key(Get(done.request))}
    /\ Cardinality(hist[_generate_key(Get(done.request))].all) = 2
    /\ cache[_generate_key(Get(done.request))].data.blocks = Get(done.response).blocks
    /\ cache[_generate_key(Get(done.request))].hit_count = 0

\* a request returns in this step: at once from its lookup, or on resuming
ReturnStep ==
    /\ done'.pc = "done"
    /\ \/ started' = started + 1 /\ slots' = slots
       \/ \E s \in Slots : slots[s].pc = "generate" /\ slots'[s].pc = "idle"

\* the key-to-entry mapping is as it was: no entry added, replaced or removed
MappingKept ==
    /\ DOMAIN cache' = DOMAIN cache
    /\ \A k \in DOMAIN cache :
          /\ cache'[k].data = cache[k].data
          /\ cache'[k].created_at = cache[k].created_at
          /\ cache'[k].expires_at = cache[k].expires_at

\* C21: a request that returns a cache hit or a fallback leaves the key-to-entry mapping
\* as it was: it adds, replaces and removes no entry.
C21_OnlyStorePathWrites ==
    [][ReturnStep /\ (done'.branch = "hit" \/ done'.fallback) => MappingKept]_vars

\* C22: every entry in the store has cached = false in its payload: store writes
\* cached = false whatever flag the response handed in carries, and a hit leaves the
\* stored payload as it was.
C22_StoredUncached ==
    /\ \A k \in DOMAIN cache : ~cache[k].data.cached
    /\ last # NoCall /\ LastCall.op = "get" /\ LastCall.ret # None =>
          /\ LastCall.key \in DOMAIN cache
          /\ cache[LastCall.key].data = MetEntry.data

\* a response carrying cached = true was stored and then served; the entry, read once,
\* holds cached = false
C22_Witness ==
    /\ Len(last) = 2
    /\ PrevCall.op = "store"
    /\ Get(PrevCall.arg).cached
    /\ LastCall.op = "get"
    /\ LastCall.key = PrevCall.key
    /\ Get(LastCall.ret).cached
    /\ cache[LastCall.key].hit_count = 1
    /\ ~cache[LastCall.key].data.cached

\* C23: store at time now leaves the key mapped to a new entry holding the payload,
\* with created_at = now, expires_at = now + TTL and hit_count = 0, whether or not an
\* entry, live or expired, was under the key; stores grows by 1, hits and misses stay.
C23_PutOverwrites ==
    last # NoCall /\ LastCall.op = "store" =>
        /\ LastCall.key \in DOMAIN cache
        /\ cache[LastCall.key] =
              [data       |-> [Get(LastCall.arg) EXCEPT !.cached = FALSE],
               created_at |-> LastCall.t,
               expires_at |-> LastCall.t + CACHE_TTL_SECONDS,
               hit_count  |-> 0]
        /\ stats.stores = LastCall.pre_stats.stores + 1
        /\ stats.hits = LastCall.pre_stats.hits
        /\ stats.misses = LastCall.pre_stats.misses

\* a store over an entry that had been read
C23_Witness ==
    /\ last # NoCall
    /\ LastCall.op = "store"
    /\ LastCall.key \in DOMAIN LastCall.pre_cache
    /\ MetEntry.hit_count = 1
    /\ cache[LastCall.key].hit_count = 0

\* the entries the latest call met, with the one it was given the key of
MetKeys == (DOMAIN LastCall.pre_cache) \cup {LastCall.key}

\* C24: a store that brings the count of stores to a multiple of 100 sweeps: afterwards
\* no entry with now > expires_at is left, evictions has grown by the number of entries
\* removed and every unexpired entry is kept; any other store removes nothing and
\* leaves evictions as it was.
C24_SweepEveryHundredth ==
    last # NoCall /\ LastCall.op = "store" =>
        IF (LastCall.pre_stats.stores + 1) % CLEANUP_EVERY = 0
        THEN /\ \A k \in DOMAIN cache : ~(LastCall.t > cache[k].expires_at)
             /\ DOMAIN cache \subseteq MetKeys
             /\ stats.evictions =
                   LastCall.pre_stats.evictions + Cardinality(MetKeys \ DOMAIN cache)
             /\ \A k \in (DOMAIN LastCall.pre_cache) \ {LastCall.key} :
                   ~(LastCall.t > LastCall.pre_cache[k].expires_at) =>
                       k \in DOMAIN cache /\ cache[k] = LastCall.pre_cache[k]
        ELSE /\ DOMAIN cache = MetKeys
             /\ stats.evictions = LastCall.pre_stats.evictions

\* the hundredth store has swept an expired entry away
C24_Witness ==
    /\ last # NoCall
    /\ LastCall.op = "store"
    /\ stats.stores = CLEANUP_EVERY
    /\ stats.evictions = LastCall.pre_stats.evictions + 1
    /\ \E k \in DOMAIN LastCall.pre_cache : k # LastCall.key /\ k \notin DOMAIN cache

\* a call of the service is made in this step
CallStep == last' # last

GetStep == CallStep /\ last'[1].op = "get"

\* C25: every get adds 1 to exactly one of hits and misses, so that hits + misses counts
\* the gets; no other operation changes either.
C25_GetCountsOnce ==
    [][IF GetStep
       THEN \/ stats'.hits = stats.hits + 1 /\ stats'.misses = stats.misses
            \/ stats'.hits = stats.hits /\ stats'.misses = stats.misses + 1
       ELSE stats'.hits = stats.hits /\ stats'.misses = stats.misses]_vars

\* a fresh service has answered two lookups, a miss and then a hit
C25_Witness ==
    /\ last # NoCall
    /\ LastCall.n = 3
    /\ LastCall.op = "get"
    /\ LastCall.ret # None
    /\ PrevCall.op = "store"
    /\ stats.stores = 1
    /\ stats.hits = 1
    /\ stats.misses = 1

\* the step stores under key k
StoresUnder(k) == CallStep /\ last'[1].op = "store" /\ last'[1].key = k

\* the step is a hit on key k
HitsOn(k) == GetStep /\ last'[1].key = k /\ last'[1].ret # None

\* C26: from its creation to its removal an entry keeps its payload, created_at and
\* expires_at; its hit_count starts at 0 and grows by 1 with each hit on its key and
\* with nothing else.
C26_EntryImmutable ==
    [][\A k \in DOMAIN cache' :
          IF k \notin DOMAIN cache \/ StoresUnder(k)
          THEN cache'[k].hit_count = 0
          ELSE /\ cache'[k].data = cache[k].data
               /\ cache'[k].created_at = cache[k].created_at
               /\ cache'[k].expires_at = cache[k].expires_at
               /\ cache'[k].hit_count = cache[k].hit_count + (IF HitsOn(k) THEN 1 ELSE 0)]_vars

\* an entry stored earlier has been read twice
C26_Witness ==
    /\ Len(last) = 2
    /\ LastCall.op = "get"
    /\ PrevCall.op = "get"
    /\ LastCall.key = PrevCall.key
    /\ LastCall.key \in DOMAIN cache
    /\ cache[LastCall.key].hit_count = 2
    /\ cache[LastCall.key].created_at < now

\* the first two members of a set of positions
FirstMarked(S) == {i \in S : Cardinality({j \in S : j < i}) < 2}

\* C27: the blocks output with image_hint = true are exactly the first two, in input
\* order among the blocks kept, that the generator marked; every later marked block is
\* output unmarked with an empty image prompt, and no block the generator left unmarked
\* is output marked.
C27_FirstTwoMarkedPass ==
    Normalizes =>
        /\ Hinted(Normalized.blocks) = FirstMarked(Hinted(KeptBlocks(RawDoc)))
        /\ \A i \in Hinted(KeptBlocks(RawDoc)) \ FirstMarked(Hinted(KeptBlocks(RawDoc))) :
              ~Normalized.blocks[i].image_hint /\ Normalized.blocks[i].image_prompt = ""
        /\ \A i \in 1..Len(Normalized.blocks) :
              ~KeptBlocks(RawDoc)[i].image_hint => ~Normalized.blocks[i].image_hint

\* blocks 2, 4 and 6 came marked; 2 and 4 went out marked, 6 did not
C27_Witness ==
    /\ Normalizes
    /\ Hinted(KeptBlocks(RawDoc)) = {2, 4, 6}
    /\ Hinted(Normalized.blocks) = {2, 4}
    /\ Normalized.blocks[6].image_prompt = ""

\* the response text holds a document that passes the generator-output schema
HasDocument ==
    /\ norm.result # None
    /\ \E i \in 1..Len(norm.raw) : norm.raw[i].t = "doc"
    /\ RawDoc.well_formed
    /\ GeminiOutputValid(RawDoc)

\* the response text with doc in the place of its document
SameTextAround(doc) ==
    [i \in 1..Len(norm.raw) |->
        IF norm.raw[i].t = "doc" THEN [t |-> "doc", v |-> doc] ELSE norm.raw[i]]

\* what an output block takes over from the raw block it is built from
DerivedFrom(out, raw) ==
    /\ out.headline = raw.headline
    /\ out.body = StrOr(raw.body, raw.text)
    /\ out.lyric_lines = raw.lyric_lines
    /\ raw.slide_title # "" => out.slide_title = raw.slide_title
    /\ Get(raw.type) \in BlockType => out.type = Get(raw.type)
    /\ out.image_hint => raw.image_hint /\ out.image_prompt = raw.image_prompt

\* the document cut to its first 8 blocks by hand
FirstEightOnly(doc) ==
    [doc EXCEPT !.blocks = Some(SubSeq(Get(doc.blocks), 1, Min(8, Len(Get(doc.blocks)))))]

Retagged(doc) ==
    [doc EXCEPT !.blocks =
        Some([i \in 1..Len(Get(doc.blocks)) |->
                 IF Get(Get(doc.blocks)[i].type) \in BlockType THEN Get(doc.blocks)[i]
                 ELSE [Get(doc.blocks)[i] EXCEPT !.type = Some("insight")]])]

\* C29: a raw block with an unknown type tag is output with type "insight" and causes no
\* validation failure (the output normalises if it does with the tag written as
\* "insight"); a block with a known tag keeps its type; unknown tags leave the number of
\* blocks as it is.
C29_UnknownTagIsInsight ==
    HasDocument /\ _parse_gemini_response(SameTextAround(Retagged(RawDoc)), Get(norm.request)).ok =>
        /\ Normalizes
        /\ Len(Normalized.blocks) =
              Len(Get(_parse_gemini_response(SameTextAround(Retagged(RawDoc)),
                                             Get(norm.request)).value).blocks)
        /\ \A i \in 1..Len(Normalized.blocks) :
              Normalized.blocks[i].type =
                  IF Get(KeptBlocks(RawDoc)[i].type) \in BlockType
                  THEN Get(KeptBlocks(RawDoc)[i].type) ELSE "insight"

\* C30: every response returned, normalised, served from the cache or fallback, has the
\* note context_used_only_for_continuity = true, whatever the generator wrote for it.
C30_ContinuityNoteForced ==
    done.pc = "done" /\ done.response # None =>
        Get(done.response).notes.context_used_only_for_continuity

\* the generator wrote the note as false; the normalised response says true
C30_Witness ==
    /\ done.pc = "done"
    /\ done.branch = "store"
    /\ ~done.fallback
    /\ Get(done.response).unit_title = "Tiny Gains"
    /\ Get(done.response).notes.compression_applied
    /\ Get(done.response).notes.context_used_only_for_continuity

\* the two requests agree on book_id, chapter_title and mode
SameKeyFrame(a, b) ==
    /\ a.book_id = b.book_id
    /\ a.chapter_title = b.chapter_title
    /\ a.mode = b.mode

\* the two bodies have the same first 500 and the same last 500 characters
SameWindows(s, t) ==
    /\ SubSeq(s, 1, 500) = SubSeq(t, 1, 500)
    /\ SubSeq(s, Len(s) - 499, Len(s)) = SubSeq(t, Len(t) - 499, Len(t))

\* C31: for content over 1000 characters the key depends on the content only through
\* its first 500 and last 500 characters: two requests equal in book_id, chapter_title
\* and mode whose contents, both over 1000 and of equal or different length, share the
\* two windows get the same key; content of 1000 characters or fewer is key material as
\* a whole, so two such contents that differ give different keys.
C31_LongContentWindows ==
    TwoKeys /\ SameKeyFrame(Get(LastCall.arg), Get(PrevCall.arg)) =>
        /\ Len(Get(LastCall.arg).text_chunk) > 1000
              /\ Len(Get(PrevCall.arg).text_chunk) > 1000
              /\ SameWindows(Get(LastCall.arg).text_chunk, Get(PrevCall.arg).text_chunk) =>
                 LastCall.ret = PrevCall.ret
        /\ Len(Get(LastCall.arg).text_chunk) <= 1000
              /\ Len(Get(PrevCall.arg).text_chunk) <= 1000
              /\ Get(LastCall.arg).text_chunk # Get(PrevCall.arg).text_chunk =>
                 LastCall.ret # PrevCall.ret

\* two bodies of 1200 and 1300 characters with different middles got one key
C31_Witness ==
    /\ TwoKeys
    /\ SameKeyFrame(Get(LastCall.arg), Get(PrevCall.arg))
    /\ Len(Get(PrevCall.arg).text_chunk) = 1200
    /\ Len(Get(LastCall.arg).text_chunk) = 1300
    /\ SameWindows(Get(LastCall.arg).text_chunk, Get(PrevCall.arg).text_chunk)
    /\ LastCall.ret = PrevCall.ret

\* the parser ran on the generator's text and raised
ParseFailed(d) == d.parses = 1 /\ d.parsed = None

\* C32: the handler's `except ValueError` branch is taken exactly for parse and schema
\* failures of the generator's output, never for empty output, missing credentials or
\* transport errors, and the failure text is not in the response returned.
C32_ValidationBranchIsParseOnly ==
    done.pc = "done" /\ ~done.hit =>
        /\ done.branch = "parse_error" <=> ParseFailed(done)
        /\ Failed(done) =>
              SameContent(Get(done.response), _create_fallback_response(Get(done.request), ""))

\* no counter is lower after the step than before it
NoCounterLower ==
    /\ stats'.hits >= stats.hits
    /\ stats'.misses >= stats.misses
    /\ stats'.stores >= stats.stores
    /\ stats'.evictions >= stats.evictions

\* C33: hits, misses, stores and evictions never decrease under get, store (with its
\* sweep), invalidate, clear and get_stats; invalidate and clear leave all four as they
\* were, so the entries they remove are not counted as evictions.
C33_CountersMonotonic ==
    [][/\ NoCounterLower
       /\ CallStep /\ last'[1].op \in {"invalidate", "clear", "get_stats"} =>
             stats' = stats]_vars

\* clear removed an entry of a service whose counters were not all zero; they stayed
C33_Witness ==
    /\ last # NoCall
    /\ LastCall.op = "clear"
    /\ LastCall.ret = Some(1)
    /\ cache = EmptyCache
    /\ stats.stores > 0
    /\ stats.misses > 0
    /\ stats.evictions = 0
    /\ stats = LastCall.pre_stats

\* C34: the number of entries in the store plus the evictions counter is at most the
\* stores counter.
C34_EntriesAndEvictionsWithinStores ==
    Cardinality(DOMAIN cache) + stats.evictions <= stats.stores

\* two stores, one eviction by a lookup and one entry in the store
C34_Witness ==
    /\ stats.stores = 2
    /\ stats.evictions = 1
    /\ Cardinality(DOMAIN cache) = 1

\* clear or invalidate runs in this step: entries go and no counter or request moves
RemovalStep ==
    /\ DOMAIN cache' # DOMAIN cache
    /\ DOMAIN cache' \subseteq DOMAIN cache
    /\ stats' = stats
    /\ started' = started
    /\ done' = done

\* the request suspended in s resumes in this step with a result that is stored
ResumesAndStores(s) ==
    /\ slots[s].pc = "generate"
    /\ slots'[s].pc = "idle"
    /\ done'.branch = "store"

\* C35: clear and invalidate do not cancel a request suspended on the generator: it
\* stays suspended as it was, and when it then succeeds its put still happens, so the
\* store holds an entry again with no new request started.
C35_ClearDoesNotCancel ==
    [][/\ RemovalStep => slots' = slots
       /\ \A s \in Slots :
             ResumesAndStores(s) =>
                 /\ done'.request = slots[s].request
                 /\ done'.puts = 1
                 /\ _generate_key(Get(slots[s].request)) \in DOMAIN cache'
                 /\ stats'.stores = stats.stores + 1
                 /\ started' = started]_vars

\* a second request arrived while the first was suspended; the first returned and stored
\* its result; the store was then emptied, by no eviction, and the second is still
\* awaiting the generator
C35_Witness ==
    /\ slots["s2"].pc = "generate"
    /\ slots["s1"].pc = "idle"
    /\ started = 2
    /\ done.branch = "store"
    /\ stats.stores = 1
    /\ stats.evictions = 0
    /\ cache = EmptyCache

\* C36: when the generator returns structurally valid output with zero blocks,
\* normalisation fails (a response needs at least 1 block), the request returns the
\* fallback through the `except ValueError` branch and performs no put.
C36_ZeroBlocksGiveFallback ==
    done.pc = "done" /\ done.raw_blocks = Some(0) =>
        /\ done.parses = 1
        /\ done.parsed = None
        /\ done.branch = "parse_error"
        /\ done.fallback
        /\ IsFallbackFor(Get(done.response), Get(done.request))
        /\ done.puts = 0

\* the only request so far got a document with no block; it has returned and the store
\* is as empty as before
C36_Witness ==
    /\ done.pc = "done"
    /\ done.raw_blocks = Some(0)
    /\ done.fallback
    /\ started = 1
    /\ stats.misses = 1
    /\ stats.stores = 0
    /\ cache = EmptyCache

\* what a returned request has done: one lookup, the generator called once on a miss
\* and not at all on a hit, the parser run at most once, at most one store
CallsOfARequest ==
    done.pc = "done" =>
        /\ done.gets = 1
        /\ done.gen_calls = (IF done.hit THEN 0 ELSE 1)
        /\ done.parses <= done.gen_calls
        /\ done.puts <= 1
        /\ done.hit => done.puts = 0

\* the counters of the store account for one lookup a request and at most one store
CallsOfAllRequests ==
    /\ stats.hits + stats.misses = started
    /\ stats.stores <= started

\* C37: every request performs exactly one cache get, at most one generator invocation
\* (none on a hit, one on a miss, never a retry) and at most one cache put, and then
\* terminates, provided the generator call itself returns or raises: whatever requests
\* are suspended, a moment comes when every one of them has returned.
C37_OneOfEachThenDone ==
    /\ [](CallsOfARequest /\ CallsOfAllRequests)
    /\ []<>(\A s \in Slots : slots[s].pc = "idle")

\* three requests have returned: the last missed, called the generator once and stored
C37_Witness ==
    /\ started = 3
    /\ \A s \in Slots : slots[s].pc = "idle"
    /\ done.pc = "done"
    /\ done.gets = 1
    /\ done.gen_calls = 1
    /\ done.puts = 1
    /\ stats.hits + stats.misses = 3

\* the steps that return a suspended request are the steps Respond takes
ResumedIsRespond ==
    [][\A s \in Slots : Resumed(s) <=> \E o \in GeneratorOutcomes : Respond(s, o)]_vars

\* C38: in a normalised result a block has a non-empty image prompt only if its
\* image_hint is true: a raw block that carries a prompt but is unmarked, or is marked
\* after 2 marked blocks have passed, goes out with an empty prompt; a block that goes
\* out marked carries the prompt it came with.
C38_PromptOnlyWithHint ==
    Normalizes =>
        \A i \in 1..Len(Normalized.blocks) :
            IF Normalized.blocks[i].image_hint
            THEN Normalized.blocks[i].image_prompt = KeptBlocks(RawDoc)[i].image_prompt
            ELSE Normalized.blocks[i].image_prompt = ""

\* four blocks came, each with a prompt, the first three marked: the third, marked past
\* the cap, and the fourth, unmarked, went out with no prompt
C38_Witness ==
    /\ Normalizes
    /\ Len(Normalized.blocks) = 4
    /\ Hinted(KeptBlocks(RawDoc)) = {1, 2, 3}
    /\ \A i \in 1..4 : KeptBlocks(RawDoc)[i].image_prompt # ""
    /\ Normalized.blocks[1].image_prompt # ""
    /\ Normalized.blocks[3].image_prompt = ""
    /\ Normalized.blocks[4].image_prompt = ""

====
